---- MODULE Spec2Model ----
(***************************************************************************)
(* Todo list with task dependencies: the route handlers that guard the     *)
(* dependency relation (POST /api/todos, PATCH and DELETE /api/todos/[id], *)
(* lib/dependencyUtils) and the page's graph analysis                      *)
(* (calculateCriticalPath, calculateEarliestStartDates).                   *)
(***************************************************************************)
EXTENDS Integers, Sequences, FiniteSets, TLC

\* ---------------------------------------------------------------- bounds
MaxTasks == 3
MaxDay == 2
MaxDeps == 2
MaxRequests == 3
MaxEdges == 3
MaxListed == 2

\* A missing value (null / undefined); ids and days start at 1.
NULL == 0
\* parseInt(params.id) of a path segment that is no number.
NaN == -1

VARIABLES
  db,         \* prisma.todo: id -> [dueDate, dependencies], the stored tasks
  nextId,     \* the autoincrement counter of the todo table
  nreq,       \* requests answered so far
  request,    \* the request answered last
  response,   \* and its response
  patch,      \* client -> the PATCH request it has in flight
  cycleCheck, \* a hasCircularDependency call: its arguments and where it stands
  todos,      \* the page's task list (useState)
  zone,       \* the browser's time zone: the clock change it makes, if any
  selectedDependencies, \* the ids ticked in the add form (useState)
  rendered,   \* Home() has run on todos
  sortedTodos,         \* the displayed order of that render
  criticalPath,        \* calculateCriticalPath(todos) of that render
  earliestStartDates   \* calculateEarliestStartDates(todos) of that render

serverVars == <<db, nextId, nreq, request, response>>
pageVars == <<todos, zone, selectedDependencies, rendered, sortedTodos,
              criticalPath, earliestStartDates>>
vars == <<db, nextId, nreq, request, response, patch, cycleCheck,
          todos, zone, selectedDependencies, rendered, sortedTodos,
          criticalPath, earliestStartDates>>

\* ---------------------------------------------------------------- helpers
Range(s) == {s[i] : i \in DOMAIN s}

Min(S) == CHOOSE x \in S : \A y \in S : x <= y

\* The rows of a relation as the store returns them: ascending id.
RECURSIVE SetToSeq(_)
SetToSeq(S) == IF S = {} THEN <<>> ELSE <<Min(S)>> \o SetToSeq(S \ {Min(S)})

\* number[] of distinct ids, at most n long.
RECURSIVE Arrays(_, _)
Arrays(S, n) ==
  IF n = 0 THEN {<<>>}
  ELSE {<<>>} \cup UNION {{<<x>> \o a : a \in Arrays(S \ {x}, n - 1)} : x \in S}

Ids == 1..MaxTasks
Days == 1..MaxDay
DepArrays == Arrays(Ids, MaxDeps)

\* The stored dependency edges of graph g: <<task, prerequisite>>.
Edges(g) == {e \in (DOMAIN g) \X (DOMAIN g) : e[2] \in g[e[1]].dependencies}

\* Tasks reachable from id d over zero or more stored dependency edges.
RECURSIVE ReachFrom(_, _)
ReachFrom(S, g) ==
  LET N == S \cup UNION {g[x].dependencies : x \in S \cap DOMAIN g}
  IN IF N = S THEN S ELSE ReachFrom(N, g)

Reaches(d, t, g) == t \in ReachFrom({d}, g)

\* t lies on a directed cycle of g.
OnCycle(t, g) == t \in DOMAIN g /\ \E d \in g[t].dependencies : Reaches(d, t, g)

Acyclic(g) == \A t \in DOMAIN g : ~OnCycle(t, g)

\* ------------------------------------------------- lib/dependencyUtils.ts
\* The state of one hasCircularDependency call between two store reads:
\*   outer    the dependencyIds the for loop has still to try,
\*   stack    one entry per hasPath call that is iterating todo.dependencies:
\*            the dependencies it has still to try, innermost last,
\*   visited  the visited set of the current top-level hasPath call,
\*   reading  the id whose findUnique is awaited (NULL: none),
\*   result   "pending" until the call has returned.
StartCheck(dependencyIds) ==
  [outer |-> dependencyIds, stack |-> <<>>, visited |-> {}, reading |-> NULL,
   result |-> "pending"]

\* As Resume, without if (visited.has(fromId)) return false.
RECURSIVE ResumeNoVisited(_, _)
ResumeNoVisited(st, toId) ==
  IF st.stack # <<>>
  THEN LET n == Len(st.stack)
           top == st.stack[n]
       IN IF top = <<>>
          THEN ResumeNoVisited([st EXCEPT !.stack = SubSeq(st.stack, 1, n - 1)], toId)
          ELSE LET dep == Head(top)
                   rest == [st EXCEPT !.stack[n] = Tail(top)]
               IN IF dep = toId
                  THEN [rest EXCEPT !.stack = <<>>, !.result = "true"]
                  ELSE [rest EXCEPT !.visited = @ \cup {dep}, !.reading = dep]
  ELSE IF st.outer = <<>>
  THEN [st EXCEPT !.result = "false"]
  ELSE LET depId == Head(st.outer)
           rest == [st EXCEPT !.outer = Tail(st.outer)]
       IN IF depId = toId
          THEN [rest EXCEPT !.result = "true"]
          ELSE [rest EXCEPT !.visited = {depId}, !.reading = depId]

\* Runs the call from where it stands to its next findUnique or to its return.
RECURSIVE Resume(_, _)
Resume(st, toId) ==
  IF st.stack # <<>>
  THEN LET n == Len(st.stack)
           top == st.stack[n]
       IN IF top = <<>>
          THEN \* the for loop of this hasPath is over: return false
               Resume([st EXCEPT !.stack = SubSeq(st.stack, 1, n - 1)], toId)
          ELSE LET dep == Head(top)
                   rest == [st EXCEPT !.stack[n] = Tail(top)]
               IN IF dep = toId
                  THEN \* fromId === toId: true, passed up through every caller
                       [rest EXCEPT !.stack = <<>>, !.result = "true"]
                  ELSE IF dep \in st.visited
                  THEN Resume(rest, toId)
                  ELSE [rest EXCEPT !.visited = @ \cup {dep}, !.reading = dep]
  ELSE IF st.outer = <<>>
  THEN [st EXCEPT !.result = "false"]
  ELSE LET depId == Head(st.outer)
           rest == [st EXCEPT !.outer = Tail(st.outer)]
       IN IF depId = toId
          THEN [rest EXCEPT !.result = "true"]
          ELSE \* a new top-level hasPath: visited = new Set()
               [rest EXCEPT !.visited = {depId}, !.reading = depId]

\* As Deliver, but the for loop over todo.dependencies returns the answer of
\* its first iteration (return hasPath(...) for if (await hasPath(...))).
DeliverFirstOnly(st, g, toId) ==
  LET from == st.reading
      st1 == [st EXCEPT !.reading = NULL]
  IN IF from \in DOMAIN g
     THEN LET deps == SetToSeq(g[from].dependencies)
          IN Resume([st1 EXCEPT !.stack =
                       Append(@, SubSeq(deps, 1, IF deps = <<>> THEN 0 ELSE 1))],
                    toId)
     ELSE Resume(st1, toId)

\* The awaited findUnique answers from graph g, and the call runs on.
Deliver(st, g, toId) ==
  LET from == st.reading
      st1 == [st EXCEPT !.reading = NULL]
  IN IF from \in DOMAIN g
     THEN Resume([st1 EXCEPT !.stack = Append(@, SetToSeq(g[from].dependencies))],
                 toId)
     ELSE \* if (!todo) return false
          Resume(st1, toId)

RECURSIVE RunCheck(_, _, _)
RunCheck(st, g, toId) ==
  IF st.result # "pending" THEN st ELSE RunCheck(Deliver(st, g, toId), g, toId)

\* As hasCircularDependency, but only the proposed ids themselves are
\* compared with todoId: their stored dependencies are not followed.
hasCircularDependencyDirect(todoId, dependencyIds, g) ==
  todoId \in Range(dependencyIds)

\* hasCircularDependency against a graph that does not change meanwhile.
hasCircularDependency(todoId, dependencyIds, g) ==
  RunCheck(Resume(StartCheck(dependencyIds), todoId), g, todoId).result = "true"

\* ------------------------------------------------------------ the store
\* prisma.todo.create: a row with the next autoincrement id, no dependencies.
CreateRow(g, id, dueDate) ==
  [i \in DOMAIN g \cup {id} |->
     IF i = id THEN [dueDate |-> dueDate, dependencies |-> {}] ELSE g[i]]

\* prisma.todo.delete: the row goes, and with it the rows of the dependency
\* relation that name it on either side.
DeleteRow(g, id) ==
  [i \in DOMAIN g \ {id} |-> [g[i] EXCEPT !.dependencies = @ \ {id}]]

\* prisma.todo.update with dependencies: { connect }: adds edges.
ConnectRows(g, id, dependencyIds) ==
  [g EXCEPT ![id].dependencies = @ \cup Range(dependencyIds)]

\* prisma.todo.update with dependencies: { set: [], connect }: replaces them.
SetRows(g, id, dependencyIds) ==
  [g EXCEPT ![id].dependencies = Range(dependencyIds)]

\* prisma.todo.findMany({ where: { id: { in: dependencyIds } } })
findMany(g, dependencyIds) == Range(dependencyIds) \cap DOMAIN g

\* As DueAfter, with the loop left after its first dependency (return in
\* both branches of the if).
DueAfterFirstOnly(g, dependencyIds, dueDate) ==
  LET dependencies == SetToSeq(findMany(g, dependencyIds))
  IN /\ dependencies # <<>>
     /\ g[dependencies[1]].dueDate # NULL
     /\ g[dependencies[1]].dueDate > dueDate

\* Some dependency found in the store is due after `dueDate`.
DueAfter(g, dependencyIds, dueDate) ==
  \E dep \in findMany(g, dependencyIds) :
     g[dep].dueDate # NULL /\ g[dep].dueDate > dueDate

\* ------------------------------------------------ app/api/todos/route.ts
Titles == {"", " ", "a"}

trim(title) == IF title = " " THEN "" ELSE title

\* As TitleMissing, without the trim: only !title.
TitleMissingNoTrim(title) == title = ""

\* !title || title.trim() === ''  (a missing title, undefined in the parsed
\* body, is falsy like "": "" stands for both)
TitleMissing(title) == title = "" \/ trim(title) = ""

Answer(g, n, status, error) ==
  [db |-> g, nextId |-> n, status |-> status, error |-> error]

\* As PostOutcome, but a rejected request does not delete the row it created.
PostOutcomeNoCleanup(g, n, title, dueDate, dependencyIds) ==
  IF TitleMissing(title) THEN Answer(g, n, 400, "title")
  ELSE
    LET id == n
        created == CreateRow(g, id, dueDate)
    IN IF dependencyIds = <<>> THEN Answer(created, n + 1, 201, "none")
       ELSE IF hasCircularDependency(id, dependencyIds, created)
       THEN Answer(created, n + 1, 400, "circular")
       ELSE IF dueDate # NULL /\ DueAfter(created, dependencyIds, dueDate)
       THEN Answer(created, n + 1, 400, "dueDate")
       ELSE IF ~(Range(dependencyIds) \subseteq DOMAIN created)
       THEN Answer(created, n + 1, 500, "internal")
       ELSE Answer(ConnectRows(created, id, dependencyIds), n + 1, 201, "none")

\* As PostOutcome, without the validation of the dependency due dates.
PostOutcomeNoDueDates(g, n, title, dueDate, dependencyIds) ==
  IF TitleMissing(title) THEN Answer(g, n, 400, "title")
  ELSE
    LET id == n
        created == CreateRow(g, id, dueDate)
    IN IF dependencyIds = <<>> THEN Answer(created, n + 1, 201, "none")
       ELSE IF hasCircularDependency(id, dependencyIds, created)
       THEN Answer(DeleteRow(created, id), n + 1, 400, "circular")
       ELSE IF ~(Range(dependencyIds) \subseteq DOMAIN created)
       THEN Answer(created, n + 1, 500, "internal")
       ELSE Answer(ConnectRows(created, id, dependencyIds), n + 1, 201, "none")

\* POST /api/todos on store g with counter n: the store, the counter and
\* the response it leaves.
PostOutcome(g, n, title, dueDate, dependencyIds) ==
  IF TitleMissing(title) THEN Answer(g, n, 400, "title")
  ELSE
    LET id == n
        created == CreateRow(g, id, dueDate)
    IN IF dependencyIds = <<>> THEN Answer(created, n + 1, 201, "none")
       ELSE IF hasCircularDependency(id, dependencyIds, created)
       THEN Answer(DeleteRow(created, id), n + 1, 400, "circular")
       ELSE IF dueDate # NULL /\ DueAfter(created, dependencyIds, dueDate)
       THEN Answer(DeleteRow(created, id), n + 1, 400, "dueDate")
       ELSE IF ~(Range(dependencyIds) \subseteq DOMAIN created)
       THEN \* connect throws on a missing row; the catch answers 500
            Answer(created, n + 1, 500, "internal")
       ELSE Answer(ConnectRows(created, id, dependencyIds), n + 1, 201, "none")

\* ------------------------------------------- app/api/todos/[id]/route.ts
\* As PatchOutcome, but a list refused for a cycle has its other members
\* connected all the same (each dependency validated and written in turn).
PatchOutcomePartial(g, n, id, dependencyIds) ==
  IF id = NaN THEN Answer(g, n, 400, "invalidId")
  ELSE IF dependencyIds # <<>> /\ id \notin DOMAIN g
  THEN Answer(g, n, 404, "notFound")
  ELSE IF dependencyIds # <<>> /\ hasCircularDependency(id, dependencyIds, g)
  THEN Answer([g EXCEPT ![id].dependencies =
                 {d \in Range(dependencyIds) \cap DOMAIN g :
                    ~hasCircularDependency(id, <<d>>, g)}],
              n, 400, "circular")
  ELSE IF /\ dependencyIds # <<>>
          /\ g[id].dueDate # NULL
          /\ DueAfter(g, dependencyIds, g[id].dueDate)
  THEN Answer(g, n, 400, "dueDate")
  ELSE IF id \notin DOMAIN g \/ ~(Range(dependencyIds) \subseteq DOMAIN g)
  THEN Answer(g, n, 500, "internal")
  ELSE Answer(SetRows(g, id, dependencyIds), n, 200, "none")

\* As PatchOutcome, with the due dates compared the other way round
\* (dep.dueDate < existingTodo.dueDate).
PatchOutcomeDueReversed(g, n, id, dependencyIds) ==
  IF id = NaN THEN Answer(g, n, 400, "invalidId")
  ELSE IF dependencyIds # <<>> /\ id \notin DOMAIN g
  THEN Answer(g, n, 404, "notFound")
  ELSE IF dependencyIds # <<>> /\ hasCircularDependency(id, dependencyIds, g)
  THEN Answer(g, n, 400, "circular")
  ELSE IF /\ dependencyIds # <<>>
          /\ g[id].dueDate # NULL
          /\ \E dep \in findMany(g, dependencyIds) :
                g[dep].dueDate # NULL /\ g[dep].dueDate < g[id].dueDate
  THEN Answer(g, n, 400, "dueDate")
  ELSE IF id \notin DOMAIN g \/ ~(Range(dependencyIds) \subseteq DOMAIN g)
  THEN Answer(g, n, 500, "internal")
  ELSE Answer(SetRows(g, id, dependencyIds), n, 200, "none")

\* As PatchOutcome, without set: [] in the update: the new dependencies are
\* connected next to the old ones.
PatchOutcomeConnectOnly(g, n, id, dependencyIds) ==
  IF id = NaN THEN Answer(g, n, 400, "invalidId")
  ELSE IF dependencyIds # <<>> /\ id \notin DOMAIN g
  THEN Answer(g, n, 404, "notFound")
  ELSE IF dependencyIds # <<>> /\ hasCircularDependency(id, dependencyIds, g)
  THEN Answer(g, n, 400, "circular")
  ELSE IF /\ dependencyIds # <<>>
          /\ g[id].dueDate # NULL
          /\ DueAfter(g, dependencyIds, g[id].dueDate)
  THEN Answer(g, n, 400, "dueDate")
  ELSE IF id \notin DOMAIN g \/ ~(Range(dependencyIds) \subseteq DOMAIN g)
  THEN Answer(g, n, 500, "internal")
  ELSE Answer(ConnectRows(g, id, dependencyIds), n, 200, "none")

\* PATCH /api/todos/[id]. dependencyIds missing from the body is falsy like
\* the empty array in both places the handler reads it: <<>> stands for both.
PatchOutcome(g, n, id, dependencyIds) ==
  IF id = NaN THEN Answer(g, n, 400, "invalidId")
  ELSE IF dependencyIds # <<>> /\ id \notin DOMAIN g
  THEN Answer(g, n, 404, "notFound")
  ELSE IF dependencyIds # <<>> /\ hasCircularDependency(id, dependencyIds, g)
  THEN Answer(g, n, 400, "circular")
  ELSE IF /\ dependencyIds # <<>>
          /\ g[id].dueDate # NULL
          /\ DueAfter(g, dependencyIds, g[id].dueDate)
  THEN Answer(g, n, 400, "dueDate")
  ELSE IF id \notin DOMAIN g \/ ~(Range(dependencyIds) \subseteq DOMAIN g)
  THEN \* update throws on a missing row; the catch answers 500
       Answer(g, n, 500, "internal")
  ELSE Answer(SetRows(g, id, dependencyIds), n, 200, "none")

\* As DeleteOutcome, but the tasks that depend on the deleted one go with it
\* (deleteMany over the task and its dependents).
DeleteOutcomeCascade(g, n, id) ==
  IF id = NaN THEN Answer(g, n, 400, "invalidId")
  ELSE IF id \notin DOMAIN g THEN Answer(g, n, 500, "internal")
  ELSE LET gone == {id} \cup {u \in DOMAIN g : id \in g[u].dependencies}
       IN Answer([i \in DOMAIN g \ gone |->
                    [g[i] EXCEPT !.dependencies = @ \ gone]],
                 n, 200, "none")

\* DELETE /api/todos/[id]: delete throws on a missing row; the catch
\* answers 500.
DeleteOutcome(g, n, id) ==
  IF id = NaN THEN Answer(g, n, 400, "invalidId")
  ELSE IF id \notin DOMAIN g THEN Answer(g, n, 500, "internal")
  ELSE Answer(DeleteRow(g, id), n, 200, "none")

\* ------------------------------------- requests answered one at a time
PathIds == Ids \cup {NaN}

NoRequest ==
  [op |-> "none", id |-> NULL, title |-> "", dueDate |-> NULL,
   dependencyIds |-> <<>>]

\* The server answers request req with outcome o.
Served(o, req) ==
  /\ nreq < MaxRequests
  /\ db' = o.db
  /\ nextId' = o.nextId
  /\ nreq' = nreq + 1
  /\ request' = req
  /\ response' = [status |-> o.status, error |-> o.error]

Reply(o, req) ==
  /\ Served(o, req)
  /\ UNCHANGED <<patch, cycleCheck, pageVars>>

POST(title, dueDate, dependencyIds) ==
  Reply(PostOutcome(db, nextId, title, dueDate, dependencyIds),
        [op |-> "POST", id |-> nextId, title |-> title, dueDate |-> dueDate,
         dependencyIds |-> dependencyIds])

PATCH(id, dependencyIds) ==
  Reply(PatchOutcome(db, nextId, id, dependencyIds),
        [op |-> "PATCH", id |-> id, title |-> "", dueDate |-> NULL,
         dependencyIds |-> dependencyIds])

DELETE(id) ==
  Reply(DeleteOutcome(db, nextId, id),
        [op |-> "DELETE", id |-> id, title |-> "", dueDate |-> NULL,
         dependencyIds |-> <<>>])

\* Clients whose requests the server handles concurrently.
Clients == {"a", "b"}

\* expanded: the findUnique reads of the call so far, each with the number of
\* the proposed dependency whose search made it.
NoCheck ==
  [called |-> FALSE, todoId |-> NULL, dependencyIds |-> <<>>,
   check |-> StartCheck(<<>>), expanded |-> <<>>]

NoPatch ==
  [pc |-> "idle", id |-> NULL, dependencyIds |-> <<>>, existingDue |-> NULL,
   check |-> StartCheck(<<>>), status |-> 0, error |-> "none"]

\* The page before its first fetch.
PageInit ==
  /\ todos = <<>>
  /\ zone = [day |-> NULL, shift |-> 0]
  /\ selectedDependencies = <<>>
  /\ rendered = FALSE
  /\ sortedTodos = <<>>
  /\ criticalPath = [criticalPath |-> <<>>, pathLength |-> 0, nodeLevels |-> <<>>]
  /\ earliestStartDates = <<>>

Init ==
  /\ PageInit
  /\ patch = [c \in Clients |-> NoPatch]
  /\ cycleCheck = NoCheck
  /\ db = <<>>
  /\ nextId = 1
  /\ nreq = 0
  /\ request = NoRequest
  /\ response = [status |-> 0, error |-> "none"]

\* The JSON bodies of the create requests: with a title every due date and
\* dependency list, without one every due date and at most one dependency.
PostBodies ==
  [title : {t \in Titles : ~TitleMissing(t)}, dueDate : {NULL} \cup Days,
   dependencyIds : DepArrays]
  \cup [title : {t \in Titles : TitleMissing(t)}, dueDate : {NULL} \cup Days,
        dependencyIds : Arrays(Ids, 1)]

Next ==
  \/ \E body \in PostBodies : POST(body.title, body.dueDate, body.dependencyIds)
  \/ \E id \in PathIds, dependencyIds \in DepArrays : PATCH(id, dependencyIds)
  \/ \E id \in PathIds : DELETE(id)

Spec == Init /\ [][Next]_vars


\* ---------------------- PATCH requests in flight together (one event loop)
\* A handler runs without interruption from one await of the store to the
\* next; between two awaits the other client's handler may run.
Finish(p, status, error) ==
  [p EXCEPT !.pc = "done", !.status = status, !.error = error]

\* Where the handler stands once hasCircularDependency has run on to its next
\* read or has returned.
AfterCheck(p, check) ==
  IF check.result = "pending" THEN [p EXCEPT !.pc = "hasPath", !.check = check]
  ELSE IF check.result = "true"
  THEN Finish([p EXCEPT !.check = check], 400, "circular")
  ELSE IF p.existingDue # NULL THEN [p EXCEPT !.pc = "findMany", !.check = check]
  ELSE [p EXCEPT !.pc = "update", !.check = check]

\* The request arrives: parseInt, request.json().
PatchBegin(c, id, dependencyIds) ==
  /\ patch[c].pc = "idle"
  /\ LET p == [patch[c] EXCEPT !.id = id, !.dependencyIds = dependencyIds]
     IN patch' = [patch EXCEPT ![c] =
          IF id = NaN THEN Finish(p, 400, "invalidId")
          ELSE IF dependencyIds # <<>> THEN [p EXCEPT !.pc = "findUnique"]
          ELSE [p EXCEPT !.pc = "update"]]
  /\ UNCHANGED <<serverVars, cycleCheck, pageVars>>

\* const existingTodo = await prisma.todo.findUnique({ where: { id } })
PatchFindUnique(c) ==
  /\ patch[c].pc = "findUnique"
  /\ LET p == patch[c]
     IN patch' = [patch EXCEPT ![c] =
          IF p.id \notin DOMAIN db THEN Finish(p, 404, "notFound")
          ELSE AfterCheck([p EXCEPT !.existingDue = db[p.id].dueDate],
                          Resume(StartCheck(p.dependencyIds), p.id))]
  /\ UNCHANGED <<serverVars, cycleCheck, pageVars>>

\* One findUnique of hasPath answers.
PatchHasPath(c) ==
  /\ patch[c].pc = "hasPath"
  /\ patch' = [patch EXCEPT ![c] =
        AfterCheck(patch[c], Deliver(patch[c].check, db, patch[c].id))]
  /\ UNCHANGED <<serverVars, cycleCheck, pageVars>>

\* const dependencies = await prisma.todo.findMany(...) and the due-date loop
PatchFindMany(c) ==
  /\ patch[c].pc = "findMany"
  /\ LET p == patch[c]
     IN patch' = [patch EXCEPT ![c] =
          IF DueAfter(db, p.dependencyIds, p.existingDue)
          THEN Finish(p, 400, "dueDate")
          ELSE [p EXCEPT !.pc = "update"]]
  /\ UNCHANGED <<serverVars, cycleCheck, pageVars>>

\* await prisma.todo.update({ ... set: [], connect ... })
PatchUpdate(c) ==
  /\ patch[c].pc = "update"
  /\ LET p == patch[c]
         ok == p.id \in DOMAIN db /\ Range(p.dependencyIds) \subseteq DOMAIN db
     IN /\ db' = IF ok THEN SetRows(db, p.id, p.dependencyIds) ELSE db
        /\ patch' = [patch EXCEPT ![c] =
             IF ok THEN Finish(p, 200, "none") ELSE Finish(p, 500, "internal")]
  /\ UNCHANGED <<nextId, nreq, request, response, cycleCheck, pageVars>>

\* The store the concurrent requests meet: MaxTasks tasks created one after
\* the other without dependencies, with or without due dates.
ConcInit ==
  /\ db \in [Ids -> [dueDate : {NULL} \cup Days, dependencies : {{}}]]
  /\ nextId = MaxTasks + 1
  /\ nreq = 0
  /\ request = NoRequest
  /\ response = [status |-> 0, error |-> "none"]
  /\ patch = [c \in Clients |-> NoPatch]
  /\ cycleCheck = NoCheck
  /\ PageInit

ConcNext ==
  \E c \in Clients :
    \/ \E id \in PathIds, dependencyIds \in DepArrays :
          PatchBegin(c, id, dependencyIds)
    \/ PatchFindUnique(c)
    \/ PatchHasPath(c)
    \/ PatchFindMany(c)
    \/ PatchUpdate(c)

SpecConc == ConcInit /\ [][ConcNext]_vars


\* ------------------------------------------------------- app/page.tsx
\* A task of the page's list: [id, dueDate, dependencies], the dependencies
\* being the tasks the store resolved, in the order it returned them.
\* A JavaScript Map: its keys in insertion order and its values.
EmptyMap == [keys |-> <<>>, val |-> <<>>]

MapHas(m, k) == k \in DOMAIN m.val

\* Map.set: a new key goes last, a known key keeps its place.
MapSet(m, k, v) ==
  IF MapHas(m, k) THEN [m EXCEPT !.val[k] = v]
  ELSE [keys |-> Append(m.keys, k),
        val |-> [x \in DOMAIN m.val \cup {k} |-> IF x = k THEN v ELSE m.val[x]]]

\* map.get(k) || dflt: undefined and 0 are both falsy.
GetOr(m, k, dflt) == IF MapHas(m, k) /\ m.val[k] # 0 THEN m.val[k] ELSE dflt

\* todo.dependencies.forEach of "Build dependency graph" for one todo.
RECURSIVE AddDependencies(_, _, _)
AddDependencies(gr, todoId, deps) ==
  IF deps = <<>> THEN gr
  ELSE LET dep == Head(deps)
       IN AddDependencies(
            IF MapHas(gr.dependents, dep.id)
            THEN [dependents |->
                    MapSet(gr.dependents, dep.id,
                           Append(gr.dependents.val[dep.id], todoId)),
                  inDegree |->
                    MapSet(gr.inDegree, todoId, GetOr(gr.inDegree, todoId, 0) + 1)]
            ELSE gr,
            todoId, Tail(deps))

RECURSIVE InitGraph(_, _)
InitGraph(gr, ts) ==
  IF ts = <<>> THEN gr
  ELSE InitGraph([dependents |-> MapSet(gr.dependents, Head(ts).id, <<>>),
                  inDegree |-> MapSet(gr.inDegree, Head(ts).id, 0)], Tail(ts))

\* As BuildGraph, with the maps initialised in the same pass over the list:
\* a dependency on a task further down the list is not in dependents yet
\* and is skipped.
RECURSIVE BuildSeen(_, _, _)
BuildSeen(gr, ts, seen) ==
  IF ts = <<>> THEN gr
  ELSE LET todo == Head(ts)
           known == SelectSeq(todo.dependencies,
                              LAMBDA dep : dep.id \in seen \cup {todo.id})
       IN BuildSeen(AddDependencies(gr, todo.id, known), Tail(ts),
                    seen \cup {todo.id})

BuildGraphSinglePass(gr, ts) == BuildSeen(gr, ts, {})

RECURSIVE BuildGraph(_, _)
BuildGraph(gr, ts) ==
  IF ts = <<>> THEN gr
  ELSE BuildGraph(AddDependencies(gr, Head(ts).id, Head(ts).dependencies), Tail(ts))

\* As Seed, without if (degree === 0): every task starts in the queue.
RECURSIVE SeedAll(_, _)
SeedAll(st, keys) ==
  IF keys = <<>> THEN st
  ELSE LET taskId == Head(keys)
       IN SeedAll([st EXCEPT !.queue = Append(@, taskId),
                             !.levels = MapSet(@, taskId, 0),
                             !.parent = MapSet(@, taskId, NULL)],
                  Tail(keys))

\* inDegree.forEach: the tasks without dependencies start the queue.
RECURSIVE Seed(_, _)
Seed(st, keys) ==
  IF keys = <<>> THEN st
  ELSE LET taskId == Head(keys)
       IN Seed(IF st.inDegree.val[taskId] = 0
               THEN [st EXCEPT !.queue = Append(@, taskId),
                               !.levels = MapSet(@, taskId, 0),
                               !.parent = MapSet(@, taskId, NULL)]
               ELSE st,
               Tail(keys))

\* As Relax, but a dependent that has a level keeps it (if (!levels.has(...))
\* for if (newLevel > existingLevel)).
RelaxFirstWriter(st, current, currentLevel, dependent) ==
  LET newLevel == currentLevel + 1
      st1 == IF ~MapHas(st.levels, dependent)
             THEN [st EXCEPT !.levels = MapSet(@, dependent, newLevel),
                             !.parent = MapSet(@, dependent, current)]
             ELSE st
      st2 == [st1 EXCEPT !.inDegree =
                MapSet(@, dependent, st1.inDegree.val[dependent] - 1)]
  IN IF st2.inDegree.val[dependent] = 0
     THEN [st2 EXCEPT !.queue = Append(@, dependent)]
     ELSE st2

\* As Relax, with newLevel >= existingLevel: a dependency that gives the
\* level the dependent already has takes the predecessor link over.
RelaxTieOverwrites(st, current, currentLevel, dependent) ==
  LET newLevel == currentLevel + 1
      existingLevel == GetOr(st.levels, dependent, -1)
      st1 == IF newLevel >= existingLevel
             THEN [st EXCEPT !.levels = MapSet(@, dependent, newLevel),
                             !.parent = MapSet(@, dependent, current)]
             ELSE st
      st2 == [st1 EXCEPT !.inDegree =
                MapSet(@, dependent, st1.inDegree.val[dependent] - 1)]
  IN IF st2.inDegree.val[dependent] = 0
     THEN [st2 EXCEPT !.queue = Append(@, dependent)]
     ELSE st2

\* As Relax, but parent.set only for a dependent that has no predecessor yet:
\* a greater level is recorded without its predecessor.
RelaxKeepParent(st, current, currentLevel, dependent) ==
  LET newLevel == currentLevel + 1
      existingLevel == GetOr(st.levels, dependent, -1)
      st1 == IF newLevel > existingLevel
             THEN [st EXCEPT !.levels = MapSet(@, dependent, newLevel),
                             !.parent = IF MapHas(@, dependent) THEN @
                                        ELSE MapSet(@, dependent, current)]
             ELSE st
      st2 == [st1 EXCEPT !.inDegree =
                MapSet(@, dependent, st1.inDegree.val[dependent] - 1)]
  IN IF st2.inDegree.val[dependent] = 0
     THEN [st2 EXCEPT !.queue = Append(@, dependent)]
     ELSE st2

\* The body of dependents.forEach for one dependent of `current`.
Relax(st, current, currentLevel, dependent) ==
  LET newLevel == currentLevel + 1
      existingLevel == GetOr(st.levels, dependent, -1)
      st1 == IF newLevel > existingLevel
             THEN [st EXCEPT !.levels = MapSet(@, dependent, newLevel),
                             !.parent = MapSet(@, dependent, current)]
             ELSE st
      st2 == [st1 EXCEPT !.inDegree =
                MapSet(@, dependent, st1.inDegree.val[dependent] - 1)]
  IN IF st2.inDegree.val[dependent] = 0
     THEN [st2 EXCEPT !.queue = Append(@, dependent)]
     ELSE st2

RECURSIVE RelaxAll(_, _, _, _)
RelaxAll(st, current, currentLevel, deps) ==
  IF deps = <<>> THEN st
  ELSE RelaxAll(Relax(st, current, currentLevel, Head(deps)),
                current, currentLevel, Tail(deps))

\* while (queue.length > 0)
RECURSIVE ProcessQueue(_)
ProcessQueue(st) ==
  IF st.queue = <<>> THEN st
  ELSE LET current == Head(st.queue)
           st1 == [st EXCEPT !.queue = Tail(@), !.dequeued = Append(@, current)]
           currentLevel == GetOr(st1.levels, current, 0)
           deps == IF MapHas(st1.dependents, current)
                   THEN st1.dependents.val[current] ELSE <<>>
       IN ProcessQueue(RelaxAll(st1, current, currentLevel, deps))

\* The maps once the queue has run empty (dequeued: the order of the shifts).
Leveling(ts) ==
  LET gr == BuildGraph(InitGraph([dependents |-> EmptyMap, inDegree |-> EmptyMap],
                                 ts), ts)
      st0 == [dependents |-> gr.dependents, inDegree |-> gr.inDegree,
              queue |-> <<>>, levels |-> EmptyMap, parent |-> EmptyMap,
              dequeued |-> <<>>]
  IN ProcessQueue(Seed(st0, gr.inDegree.keys))

\* levels.forEach of "Find longest path".
RECURSIVE FindLongest(_, _, _)
FindLongest(found, levels, keys) ==
  IF keys = <<>> THEN found
  ELSE LET taskId == Head(keys)
           level == levels.val[taskId]
       IN FindLongest(IF level > found.maxLevel
                      THEN [maxLevel |-> level, endTask |-> taskId]
                      ELSE found,
                      levels, Tail(keys))

\* As Reconstruct, with push for unshift: the path comes end task first.
RECURSIVE ReconstructPush(_, _, _)
ReconstructPush(path, current, parent) ==
  IF current = NULL THEN path
  ELSE ReconstructPush(Append(path, current), parent.val[current], parent)

\* for (current = endTask; current !== null; current = parent.get(current))
RECURSIVE Reconstruct(_, _, _)
Reconstruct(path, current, parent) ==
  IF current = NULL THEN path
  ELSE Reconstruct(<<current>> \o path, parent.val[current], parent)

EmptyResult == [criticalPath |-> <<>>, pathLength |-> 0, nodeLevels |-> <<>>]

\* The analysis of a list that is not empty.
Analyse(ts) ==
  LET st == Leveling(ts)
      found == FindLongest([maxLevel |-> 0, endTask |-> NULL],
                           st.levels, st.levels.keys)
  IN [criticalPath |-> Reconstruct(<<>>, found.endTask, st.parent),
      pathLength |-> found.maxLevel + 1,
      nodeLevels |-> st.levels.val]

\* As calculateCriticalPath, without the early return for the empty list.
calculateCriticalPathNoGuard(ts) == Analyse(ts)

calculateCriticalPath(ts) ==
  IF Len(ts) = 0 THEN EmptyResult ELSE Analyse(ts)

\* new Date(iso) of a due date the store holds: noon UTC of its day, in
\* hours since the epoch.
Noon == 12

\* As ToInstant, for a due date stored at midnight UTC (new Date(dueDate)).
ToInstantMidnight(day) == day * 24

ToInstant(day) == day * 24 + Noon

\* toISOString().slice(0, 10) / toLocaleDateString(timeZone: 'UTC'): the UTC day.
UTCDay(instant) == instant \div 24

Max(S) == CHOOSE x \in S : \A y \in S : y <= x

\* A time zone as far as the dates at hand see it: the local clock is put
\* forward (shift 1) or back (shift -1) by an hour in the night after UTC
\* day `day`, or not at all.
NoClockChange == [day |-> NULL, shift |-> 0]

\* setDate(getDate() + 1): the same local wall-clock time on the next local
\* day, which is 24 hours later less what the clock was put forward.
NextLocalDay(instant, tz) ==
  instant + 24 - (IF tz.day = UTCDay(instant) THEN tz.shift ELSE 0)

\* The body of todos.forEach in calculateEarliestStartDates for one todo.
EarliestStart(todo, tz) ==
  LET dependencyDueDates ==
        {ToInstant(todo.dependencies[i].dueDate) :
           i \in {j \in DOMAIN todo.dependencies :
                    todo.dependencies[j].dueDate # NULL}}
  IN IF dependencyDueDates = {} THEN NULL
     ELSE LET latestDependencyDueDate == Max(dependencyDueDates)
          IN NextLocalDay(latestDependencyDueDate, tz)

\* As calculateEarliestStartDates, with dependencyDueDates declared outside
\* todos.forEach: the due dates of the tasks listed before stay in the array.
calculateEarliestStartDatesShared(ts, tz) ==
  [id \in {ts[i].id : i \in DOMAIN ts} |->
     LET k == CHOOSE i \in DOMAIN ts : ts[i].id = id
         dependencyDueDates ==
           UNION {{ToInstant(ts[i].dependencies[j].dueDate) :
                     j \in {j \in DOMAIN ts[i].dependencies :
                              ts[i].dependencies[j].dueDate # NULL}} : i \in 1..k}
     IN IF dependencyDueDates = {} THEN NULL
        ELSE NextLocalDay(Max(dependencyDueDates), tz)]

calculateEarliestStartDates(ts, tz) ==
  [id \in {ts[i].id : i \in DOMAIN ts} |->
     EarliestStart(ts[CHOOSE i \in DOMAIN ts : ts[i].id = id], tz)]

\* As compare, with 0 for Infinity as the time of a missing due date.
compareMissingDueFirst(a, b, starts) ==
  LET startDateA == starts[a.id]
      startDateB == starts[b.id]
      dueDateA == IF a.dueDate # NULL THEN ToInstant(a.dueDate) ELSE 0
      dueDateB == IF b.dueDate # NULL THEN ToInstant(b.dueDate) ELSE 0
  IN IF startDateA = NULL /\ startDateB # NULL THEN -1
     ELSE IF startDateA # NULL /\ startDateB = NULL THEN 1
     ELSE IF startDateA # NULL /\ startDateB # NULL /\ startDateA # startDateB
     THEN startDateA - startDateB
     ELSE dueDateA - dueDateB

\* The comparator of sortedTodos. A missing due date counts as Infinity:
\* Infinity - x is positive, x - Infinity negative, and Infinity - Infinity is
\* NaN, which sort takes for 0.
compare(a, b, starts) ==
  LET startDateA == starts[a.id]
      startDateB == starts[b.id]
  IN IF startDateA = NULL /\ startDateB # NULL THEN -1
     ELSE IF startDateA # NULL /\ startDateB = NULL THEN 1
     ELSE IF startDateA # NULL /\ startDateB # NULL /\ startDateA # startDateB
     THEN startDateA - startDateB
     ELSE IF a.dueDate = NULL /\ b.dueDate = NULL THEN 0
     ELSE IF a.dueDate = NULL THEN 1
     ELSE IF b.dueDate = NULL THEN -1
     ELSE ToInstant(a.dueDate) - ToInstant(b.dueDate)

\* Array.prototype.sort is stable: x goes behind every element it does not
\* sort before.
RECURSIVE Insert(_, _, _)
Insert(sorted, x, starts) ==
  IF sorted = <<>> THEN <<x>>
  ELSE LET n == Len(sorted)
       IN IF compare(sorted[n], x, starts) > 0
          THEN Append(Insert(SubSeq(sorted, 1, n - 1), x, starts), sorted[n])
          ELSE Append(sorted, x)

\* [...todos].sort(comparator)
RECURSIVE SortTodos(_, _)
SortTodos(ts, starts) ==
  IF ts = <<>> THEN <<>>
  ELSE Insert(SortTodos(SubSeq(ts, 1, Len(ts) - 1), starts), ts[Len(ts)], starts)

\* ------------------------------------------------ the analysis of a list
\* Home(): both analyses of the current list, on every render.
Render ==
  /\ ~rendered
  /\ rendered' = TRUE
  /\ criticalPath' = calculateCriticalPath(todos)
  /\ earliestStartDates' = calculateEarliestStartDates(todos, zone)
  /\ sortedTodos' = SortTodos(todos, calculateEarliestStartDates(todos, zone))
  /\ UNCHANGED <<serverVars, patch, cycleCheck, todos, zone, selectedDependencies>>

\* Dependency arrays of at most e tasks with distinct ids of `ids`, each
\* carrying a due date of depDues.
DepObjects(ids, e, depDues) ==
  UNION {{[k \in DOMAIN a |-> [id |-> a[k], dueDate |-> f[k]]] :
            f \in [DOMAIN a -> depDues]} : a \in Arrays(ids, e)}

RECURSIVE DepCount(_)
DepCount(ts) ==
  IF ts = <<>> THEN 0 ELSE Len(Head(ts).dependencies) + DepCount(Tail(ts))

ListedIds(ts) == {ts[k].id : k \in DOMAIN ts}

\* The list to analyse gets one more task: any id not yet in it, in any
\* position of the order, with any array of other tasks for its dependencies
\* (a dependency may be missing from the list, or close a cycle), as long as
\* the list holds at most MaxEdges (MaxDeps for the start dates) dependency
\* entries in all.
AddTodo(i, d, ds) ==
  /\ todos' = Append(todos, [id |-> i, dueDate |-> d, dependencies |-> ds])
  /\ UNCHANGED <<serverVars, patch, cycleCheck, zone, selectedDependencies,
                 rendered, sortedTodos, criticalPath, earliestStartDates>>

NoServer ==
  /\ db = <<>>
  /\ nextId = 1
  /\ nreq = 0
  /\ request = NoRequest
  /\ response = [status |-> 0, error |-> "none"]
  /\ patch = [c \in Clients |-> NoPatch]
  /\ cycleCheck = NoCheck

\* calculateCriticalPath on every bounded list (due dates play no part).
CPInit == NoServer /\ PageInit

CPDependencies ==
  [i \in Ids |-> [e \in 0..MaxEdges |-> DepObjects(Ids \ {i}, e, {NULL})]]

CPNext ==
  \/ /\ ~rendered
     /\ \E i \in Ids \ ListedIds(todos) :
           \E ds \in CPDependencies[i][MaxEdges - DepCount(todos)] :
              AddTodo(i, NULL, ds)
  \/ Render

SpecCP == CPInit /\ [][CPNext]_vars

\* calculateEarliestStartDates on every bounded list, in every time zone.
Listed == 1..MaxListed

Zones == {NoClockChange} \cup [day : Days, shift : {-1, 1}]

ESInit ==
  /\ NoServer
  /\ todos = <<>>
  /\ zone \in Zones
  /\ selectedDependencies = <<>>
  /\ rendered = FALSE
  /\ sortedTodos = <<>>
  /\ criticalPath = EmptyResult
  /\ earliestStartDates = <<>>

ESDependencies ==
  [i \in Listed |->
     [e \in 0..MaxDeps |-> DepObjects(Ids \ {i}, e, {NULL} \cup Days)]]

ESNext ==
  \/ /\ ~rendered
     /\ \E i \in Listed \ ListedIds(todos) :
           \E ds \in ESDependencies[i][MaxDeps - DepCount(todos)] :
              AddTodo(i, NULL, ds)
  \/ Render

SpecES == ESInit /\ [][ESNext]_vars

\* areDatesSameDay of a list item: the due date and the earliest start fall
\* on one UTC day.
areDatesSameDay(todo, earliestStartDate) ==
  /\ todo.dueDate # NULL
  /\ earliestStartDate # NULL
  /\ UTCDay(ToInstant(todo.dueDate)) = UTCDay(earliestStartDate)

\* The list item shows ' (after due date!)': the combined line of
\* areDatesSameDay is not taken, and the earliest start is a later instant
\* than the due date.
AfterDueDate(todo, earliestStartDate) ==
  /\ ~areDatesSameDay(todo, earliestStartDate)
  /\ earliestStartDate # NULL
  /\ todo.dueDate # NULL
  /\ earliestStartDate > ToInstant(todo.dueDate)

\* ------------------------------------------ the page and the server
\* GET /api/todos: the tasks, newest first, each with the rows of its
\* dependencies.
GET(g) ==
  LET ids == SetToSeq(DOMAIN g)
      n == Len(ids)
      row(id) == LET deps == SetToSeq(g[id].dependencies \cap DOMAIN g)
                 IN [id |-> id, dueDate |-> g[id].dueDate,
                     dependencies |->
                       [j \in DOMAIN deps |->
                          [id |-> deps[j], dueDate |-> g[deps[j]].dueDate]]]
  IN [k \in 1..n |-> row(ids[n + 1 - k])]

\* response.ok
Ok(o) == o.status \in 200..299

\* DependencySelector of the add form: a listed task is ticked or unticked.
handleCheckboxChange(todoId) ==
  /\ ~rendered
  /\ todoId \in ListedIds(todos)
  /\ selectedDependencies' =
        IF todoId \in Range(selectedDependencies)
        THEN SelectSeq(selectedDependencies, LAMBDA id : id # todoId)
        ELSE Append(selectedDependencies, todoId)
  /\ Len(selectedDependencies') <= MaxDeps
  /\ UNCHANGED <<serverVars, patch, cycleCheck, todos, zone, rendered,
                 sortedTodos, criticalPath, earliestStartDates>>

\* handleAddTodo with its POST and, on an ok response, its fetchTodos.
handleAddTodo(newTodo, newDueDate) ==
  /\ ~rendered
  /\ trim(newTodo) # ""
  /\ LET o == PostOutcome(db, nextId, newTodo, newDueDate, selectedDependencies)
     IN /\ Served(o, [op |-> "POST", id |-> nextId, title |-> newTodo,
                      dueDate |-> newDueDate,
                      dependencyIds |-> selectedDependencies])
        /\ selectedDependencies' = IF Ok(o) THEN <<>> ELSE selectedDependencies
        /\ todos' = IF Ok(o) THEN GET(o.db) ELSE todos
  /\ UNCHANGED <<patch, cycleCheck, zone, rendered, sortedTodos, criticalPath,
                 earliestStartDates>>

\* handleDeleteTodo of a listed task with its DELETE and its fetchTodos.
handleDeleteTodo(id) ==
  /\ ~rendered
  /\ id \in ListedIds(todos)
  /\ LET o == DeleteOutcome(db, nextId, id)
     IN /\ Served(o, [op |-> "DELETE", id |-> id, title |-> "", dueDate |-> NULL,
                      dependencyIds |-> <<>>])
        /\ todos' = GET(o.db)
  /\ UNCHANGED <<patch, cycleCheck, zone, selectedDependencies, rendered,
                 sortedTodos, criticalPath, earliestStartDates>>

\* handleEditDependencies of a listed task, the ticks of its selector (which
\* leaves the task itself out), and handleSaveDependencies with its PATCH
\* and, on an ok response, its fetchTodos.
handleSaveDependencies(id, editDependencies) ==
  /\ ~rendered
  /\ id \in ListedIds(todos)
  /\ Range(editDependencies) \subseteq ListedIds(todos) \ {id}
  /\ LET o == PatchOutcome(db, nextId, id, editDependencies)
     IN /\ Served(o, [op |-> "PATCH", id |-> id, title |-> "", dueDate |-> NULL,
                      dependencyIds |-> editDependencies])
        /\ todos' = IF Ok(o) THEN GET(o.db) ELSE todos
  /\ UNCHANGED <<patch, cycleCheck, zone, selectedDependencies, rendered,
                 sortedTodos, criticalPath, earliestStartDates>>

\* The page of one user in some time zone, on an empty store.
HomeInit ==
  /\ NoServer
  /\ todos = <<>>
  /\ zone \in Zones
  /\ selectedDependencies = <<>>
  /\ rendered = FALSE
  /\ sortedTodos = <<>>
  /\ criticalPath = EmptyResult
  /\ earliestStartDates = <<>>

HomeNext ==
  \/ \E todoId \in Ids : handleCheckboxChange(todoId)
  \/ \E newTodo \in Titles, newDueDate \in {NULL} \cup Days :
        handleAddTodo(newTodo, newDueDate)
  \/ \E id \in Ids : handleDeleteTodo(id)
  \/ \E id \in Ids, editDependencies \in DepArrays :
        handleSaveDependencies(id, editDependencies)
  \/ Render

SpecHome == HomeInit /\ [][HomeNext]_vars

\* sortedTodos on every bounded list: each task with or without a due date
\* and with at most one dependency, whose due date sets its earliest start.
SortDependencies ==
  [i \in Listed |-> DepObjects({Min(Ids \ {i})}, 1, {NULL} \cup Days)]

SortNext ==
  \/ /\ ~rendered
     /\ \E i \in Listed \ ListedIds(todos) :
           \E d \in {NULL} \cup Days, ds \in SortDependencies[i] : AddTodo(i, d, ds)
  \/ Render

SpecSort == CPInit /\ [][SortNext]_vars

\* ------------------------------------- hasCircularDependency on any graph
\* The stored graph gets one more edge between two of its tasks. Edges that
\* close a cycle are among them: handlers that run together leave such graphs.
AddEdge(t, d) ==
  /\ ~cycleCheck.called
  /\ t \in DOMAIN db /\ d \in DOMAIN db /\ t # d
  /\ d \notin db[t].dependencies
  /\ Cardinality(Edges(db)) < MaxEdges
  /\ db' = ConnectRows(db, t, <<d>>)
  /\ UNCHANGED <<nextId, nreq, request, response, patch, cycleCheck, pageVars>>

\* hasCircularDependency(todoId, dependencyIds) is called and runs to its
\* first findUnique.
CheckBegin(todoId, dependencyIds) ==
  /\ ~cycleCheck.called
  /\ cycleCheck' = [called |-> TRUE, todoId |-> todoId,
                    dependencyIds |-> dependencyIds,
                    check |-> Resume(StartCheck(dependencyIds), todoId),
                    expanded |-> <<>>]
  /\ UNCHANGED <<serverVars, patch, pageVars>>

\* One findUnique of the call answers.
CheckRead ==
  /\ cycleCheck.called
  /\ cycleCheck.check.result = "pending"
  /\ cycleCheck' =
       [cycleCheck EXCEPT
          !.check = Deliver(@, db, cycleCheck.todoId),
          !.expanded =
             Append(@, <<Len(cycleCheck.dependencyIds) - Len(cycleCheck.check.outer),
                         cycleCheck.check.reading>>)]
  /\ UNCHANGED <<serverVars, patch, pageVars>>

HCInit ==
  /\ db \in {[i \in S |-> [dueDate |-> NULL, dependencies |-> {}]] : S \in SUBSET Ids}
  /\ nextId = MaxTasks + 1
  /\ nreq = 0
  /\ request = NoRequest
  /\ response = [status |-> 0, error |-> "none"]
  /\ patch = [c \in Clients |-> NoPatch]
  /\ cycleCheck = NoCheck
  /\ PageInit

HCNext ==
  \/ \E t \in Ids, d \in Ids : AddEdge(t, d)
  \/ \E todoId \in Ids, dependencyIds \in DepArrays :
        CheckBegin(todoId, dependencyIds)
  \/ CheckRead

SpecHC == HCInit /\ [][HCNext]_vars

\* The store answers every read: a findUnique that is awaited resolves.
SpecHCFair == SpecHC /\ WF_vars(CheckRead)

\* ------------------------------------------------------------ properties
\* The dependency graph of a task list: id -> the ids of its dependencies.
ListGraph(ts) ==
  [id \in ListedIds(ts) |->
     LET todo == ts[CHOOSE k \in DOMAIN ts : ts[k].id = id]
     IN [dependencies |-> {todo.dependencies[j].id : j \in DOMAIN todo.dependencies}]]

\* Every dependency of the list is a task of the list.
Closed(g) == \A t \in DOMAIN g : g[t].dependencies \subseteq DOMAIN g

\* The number of edges of the longest dependency chain ending at t (g acyclic).
RECURSIVE LongestChain(_, _)
LongestChain(t, g) ==
  IF g[t].dependencies = {} THEN 0
  ELSE 1 + Max({LongestChain(d, g) : d \in g[t].dependencies})

\* C1: after any sequence of create, replace-dependency-set and delete
\* requests answered one at a time from the empty store, no stored task
\* reaches itself over dependency edges.
C1_StoreAcyclic == Acyclic(db)

\* A replace-dependency-set request that would have closed a cycle over a
\* stored edge (the task itself was not in the proposed list) was refused, and
\* the store still holds that edge.
C1_Witness ==
  /\ request.op = "PATCH" /\ response.error = "circular"
  /\ request.id \notin Range(request.dependencyIds)
  /\ Edges(db) # {}

\* C2: on every stored graph, cyclic ones included, hasCircularDependency(t, D)
\* answers true exactly when some d of D reaches t over zero or more stored
\* edges, that is exactly when t with D for its dependency set would lie on a
\* cycle; a D that holds t itself is answered true.
C2_CycleCheckExact ==
  (cycleCheck.called /\ cycleCheck.check.result # "pending") =>
    LET t == cycleCheck.todoId
        D == cycleCheck.dependencyIds
        answer == cycleCheck.check.result = "true"
    IN /\ answer <=> \E d \in Range(D) : Reaches(d, t, db)
       /\ t \in Range(D) => answer
       /\ (t \in DOMAIN db /\ Range(D) \subseteq DOMAIN db) =>
            (answer <=> OnCycle(t, SetRows(db, t, D)))

\* The call answered true for a task that is not itself proposed, on a graph
\* that already holds a cycle, after following stored edges.
C2_Witness ==
  /\ cycleCheck.called /\ cycleCheck.check.result = "true"
  /\ cycleCheck.todoId \notin Range(cycleCheck.dependencyIds)
  /\ ~Acyclic(db)

\* C3: under any interleaving of two replace-dependency-set requests the
\* stored graph is acyclic once both requests have completed.
C3_ConcurrentAcyclic ==
  (\A c \in Clients : patch[c].pc = "done") => Acyclic(db)

\* C4: for an acyclic list that holds all its dependencies, every task has a
\* level in nodeLevels, the level is the number of edges of the longest
\* dependency chain ending at the task, it is >= 0, and it is 0 for a task
\* without dependencies.
C4_LevelsAreLongestChains ==
  LET g == ListGraph(todos)
  IN (rendered /\ todos # <<>> /\ Acyclic(g) /\ Closed(g)) =>
       \A t \in DOMAIN g :
          /\ t \in DOMAIN criticalPath.nodeLevels
          /\ criticalPath.nodeLevels[t] = LongestChain(t, g)
          /\ criticalPath.nodeLevels[t] >= 0
          /\ g[t].dependencies = {} => criticalPath.nodeLevels[t] = 0

\* An analysed acyclic list in which a task has a short and a long chain
\* leading to it.
C4_Witness ==
  LET g == ListGraph(todos)
  IN /\ rendered /\ todos # <<>> /\ Acyclic(g) /\ Closed(g)
     /\ \E t \in DOMAIN g :
          /\ criticalPath.nodeLevels[t] = 2
          /\ \E d \in g[t].dependencies : g[d].dependencies = {}

\* C5: for every list that is not empty, criticalPath has exactly pathLength
\* entries.
C5_PathHasPathLengthEntries ==
  (rendered /\ todos # <<>>) =>
     Len(criticalPath.criticalPath) = criticalPath.pathLength

\* C6: every entry of criticalPath is a task of the list, every entry after
\* the first has the entry before it among its dependencies, and the first
\* entry has level 0.
C6_PathFollowsEdges ==
  rendered =>
    LET path == criticalPath.criticalPath
        g == ListGraph(todos)
    IN /\ \A i \in DOMAIN path : path[i] \in ListedIds(todos)
       /\ \A i \in DOMAIN path :
             i > 1 => path[i - 1] \in g[path[i]].dependencies
       /\ path # <<>> =>
             /\ path[1] \in DOMAIN criticalPath.nodeLevels
             /\ criticalPath.nodeLevels[path[1]] = 0

\* An analysed list whose critical path has three entries.
C6_Witness == rendered /\ Len(criticalPath.criticalPath) = 3

\* C7: for every list that is not empty, nodeLevels has a maximum value and
\* pathLength is that value plus 1.
C7_PathLengthIsMaxLevelPlusOne ==
  (rendered /\ todos # <<>>) =>
     \E t \in DOMAIN criticalPath.nodeLevels :
        /\ \A u \in DOMAIN criticalPath.nodeLevels :
              criticalPath.nodeLevels[u] <= criticalPath.nodeLevels[t]
        /\ criticalPath.pathLength = criticalPath.nodeLevels[t] + 1

\* C8: the empty list gives criticalPath = [], pathLength = 0, nodeLevels = {}.
C8_EmptyList ==
  (rendered /\ todos = <<>>) =>
     /\ criticalPath.criticalPath = <<>>
     /\ criticalPath.pathLength = 0
     /\ DOMAIN criticalPath.nodeLevels = {}

\* The empty list has been analysed.
C8_Witness == rendered /\ todos = <<>>

\* The due days of the direct dependencies of a task that have one.
DependencyDays(todo) ==
  {todo.dependencies[j].dueDate : j \in DOMAIN todo.dependencies} \ {NULL}

\* C9: a task none of whose direct dependencies has a due date gets no start
\* date; any other task gets the calendar day after the latest due date among
\* its direct dependencies.
C9_EarliestStartIsDayAfterLatest ==
  rendered =>
    \A k \in DOMAIN todos :
       LET start == earliestStartDates[todos[k].id]
           days == DependencyDays(todos[k])
       IN IF days = {} THEN start = NULL
          ELSE start # NULL /\ UTCDay(start) = Max(days) + 1

\* A task with two dependencies due on different days was given a start date
\* in a zone whose clock changes in the night after the later one.
C9_Witness ==
  /\ rendered
  /\ \E k \in DOMAIN todos :
        /\ Cardinality(DependencyDays(todos[k])) = 2
        /\ zone.day = Max(DependencyDays(todos[k]))
        /\ zone.shift = 1

\* C10: a create request rejected for a cyclic dependency list or for a
\* dependency due after the new task is answered with an error and leaves the
\* stored tasks and edges as they were.
C10_RejectedCreateLeavesStore ==
  [][(/\ nreq' # nreq
      /\ request'.op = "POST"
      /\ response'.error \in {"circular", "dueDate"})
     => (response'.status = 400 /\ db' = db)]_vars

\* A create request was rejected for a dependency due after it, on a store
\* that holds tasks.
C10_Witness ==
  /\ request.op = "POST" /\ response.error = "dueDate"
  /\ DOMAIN db # {}

\* ---------------------------------------- the last request and its effect
\* The step answers a request of kind op.
Answered(op) == nreq' # nreq /\ request'.op = op

\* C11: a replace-dependency-set request whose list holds a dependency that
\* would close a cycle (it reaches the task over stored edges, or is the task)
\* is refused as a whole: no task's stored dependency set changes, the
\* members of the list that close no cycle are not connected either.
C11_CyclicListRejectedWhole ==
  [][(/\ Answered("PATCH")
      /\ \E d \in Range(request'.dependencyIds) : Reaches(d, request'.id, db))
     => /\ response'.status \in {400, 404}
        /\ request'.id \in DOMAIN db => response'.error = "circular"
        /\ DOMAIN db' = DOMAIN db
        /\ \A u \in DOMAIN db : db'[u].dependencies = db[u].dependencies]_vars

\* A list of two stored tasks was refused for a cycle that only one of them
\* closes.
C11_Witness ==
  /\ request.op = "PATCH" /\ response.error = "circular"
  /\ Len(request.dependencyIds) = 2
  /\ Range(request.dependencyIds) \subseteq DOMAIN db
  /\ \E d \in Range(request.dependencyIds) : ~Reaches(d, request.id, db)

\* C12: a replace-dependency-set request for a stored task with a due date is
\* refused with status 400, and no stored dependency set changes, whenever a
\* proposed dependency is stored with a due date after the task's.
C12_LateDependencyRejected ==
  [][(/\ Answered("PATCH")
      /\ request'.id \in DOMAIN db
      /\ db[request'.id].dueDate # NULL
      /\ \E d \in Range(request'.dependencyIds) \cap DOMAIN db :
            db[d].dueDate # NULL /\ db[d].dueDate > db[request'.id].dueDate)
     => /\ response'.status = 400
        /\ DOMAIN db' = DOMAIN db
        /\ \A u \in DOMAIN db : db'[u].dependencies = db[u].dependencies]_vars

\* A replacement was refused for a dependency due after the task.
C12_Witness ==
  /\ request.op = "PATCH" /\ response.error = "dueDate"
  /\ request.id \in DOMAIN db
  /\ \E d \in Range(request.dependencyIds) \cap DOMAIN db :
        db[d].dueDate > db[request.id].dueDate

\* C13: after an accepted replace-dependency-set request for task t with list
\* D, t's stored dependency set is exactly the ids of D (the empty set for an
\* empty or missing D), and no other task, due date or dependency set changes.
C13_AcceptedListReplacesSet ==
  [][(Answered("PATCH") /\ response'.status = 200)
     => /\ request'.id \in DOMAIN db
        /\ DOMAIN db' = DOMAIN db
        /\ db'[request'.id].dependencies = Range(request'.dependencyIds)
        /\ db'[request'.id].dueDate = db[request'.id].dueDate
        /\ \A u \in DOMAIN db \ {request'.id} : db'[u] = db[u]]_vars

\* An empty list was accepted for a task created before the last one, while
\* another task keeps its dependencies.
C13_Witness ==
  /\ request.op = "PATCH" /\ response.status = 200
  /\ request.dependencyIds = <<>>
  /\ db[request.id].dependencies = {}
  /\ \E u \in DOMAIN db \ {request.id} : db[u].dependencies # {}

\* C14: deleting a stored task t removes t and every dependency edge into or
\* out of t and nothing else: every other task stays, with its due date, and
\* its dependency set is its previous set less t.
C14_DeleteRemovesTaskAndItsEdges ==
  [][(Answered("DELETE") /\ request'.id \in DOMAIN db)
     => /\ response'.status = 200
        /\ DOMAIN db' = DOMAIN db \ {request'.id}
        /\ \A u \in DOMAIN db' :
              /\ db'[u].dependencies = db[u].dependencies \ {request'.id}
              /\ db'[u].dueDate = db[u].dueDate]_vars

\* A task was deleted and a task created after it is still stored.
C14_Witness ==
  /\ request.op = "DELETE" /\ response.status = 200
  /\ request.id \notin DOMAIN db
  /\ \E u \in DOMAIN db : u > request.id

\* C15: every replace-dependency-set or delete request that names a task id
\* not in the store is answered not found (404), whatever the proposed list.
C15_MissingTaskIsNotFound ==
  [][((Answered("PATCH") \/ Answered("DELETE")) /\ request'.id \in Ids \ DOMAIN db)
     => (response'.status = 404 /\ response'.error = "notFound")]_vars

\* C16: a create request whose title is missing, empty or only whitespace is
\* refused with the title's validation error and leaves the store as it was:
\* no task is created and no id is used up.
C16_MissingTitleRejected ==
  [][(Answered("POST") /\ request'.title \in {"", " "})
     => /\ response'.status = 400 /\ response'.error = "title"
        /\ db' = db /\ nextId' = nextId]_vars

\* A create request with a whitespace title was refused on a store that
\* holds tasks.
C16_Witness ==
  /\ request.op = "POST" /\ request.title = " " /\ response.error = "title"
  /\ DOMAIN db # {}

\* ------------------------------------------- the analysis of any task list
\* The tasks joined to those of S by dependency edges, whatever their
\* direction: the components S lies in.
RECURSIVE ComponentOf(_, _)
ComponentOf(S, g) ==
  LET N == S \cup {u \in DOMAIN g :
                     \E t \in S : u \in g[t].dependencies \/ t \in g[u].dependencies}
  IN IF N = S THEN S ELSE ComponentOf(N, g)

SeveralComponents(g) == \E t \in DOMAIN g : ComponentOf({t}, g) # DOMAIN g

Distinct(s) == \A i, j \in DOMAIN s : s[i] = s[j] => i = j

\* C17: when the list holds a dependency cycle the call returns, and no task
\* on a cycle is in nodeLevels or in criticalPath, a cycle member that also
\* depends on a task outside the cycle included.
C17_CycleMembersExcluded ==
  rendered =>
     LET g == ListGraph(todos)
     IN \A t \in DOMAIN g :
           OnCycle(t, g) =>
              /\ t \notin DOMAIN criticalPath.nodeLevels
              /\ t \notin Range(criticalPath.criticalPath)

\* C19: for every list, cyclic or not, the work-queue loop dequeues each task
\* at most once (and only tasks of the list), and the walk over the
\* predecessor links from the end task visits no task twice and stops at a
\* task without predecessor, after at most as many steps as there are tasks.
C19_AnalysisTerminates ==
  rendered =>
     LET st == Leveling(todos)
         path == criticalPath.criticalPath
     IN /\ Distinct(st.dequeued)
        /\ Range(st.dequeued) \subseteq ListedIds(todos)
        /\ Distinct(path)
        /\ Len(path) <= Len(todos)
        /\ path # <<>> => st.parent.val[path[1]] = NULL

\* A list with a cycle was analysed: tasks were dequeued and a path of more
\* than one task was walked back.
C19_Witness ==
  /\ rendered /\ ~Acyclic(ListGraph(todos))
  /\ Len(criticalPath.criticalPath) >= 2

\* C20: on a list whose graph has several components, criticalPath has a
\* last entry and its level is the maximum of the levels of all tasks.
C20_EndTaskHasMaxLevel ==
  LET g == ListGraph(todos)
      path == criticalPath.criticalPath
      nodeLevels == criticalPath.nodeLevels
  IN (rendered /\ Acyclic(g) /\ Closed(g) /\ SeveralComponents(g)) =>
        /\ path # <<>>
        /\ path[Len(path)] \in DOMAIN nodeLevels
        /\ \A u \in DOMAIN nodeLevels : nodeLevels[u] <= nodeLevels[path[Len(path)]]

\* C18: on every stored graph, cyclic ones included, a hasCircularDependency
\* call returns, and during the search for one proposed dependency no task's
\* dependencies are read twice.
C18_SearchTerminates ==
  /\ []Distinct(cycleCheck.expanded)
  /\ (cycleCheck.called ~> cycleCheck.check.result # "pending")

\* A call answered false on a graph that holds a cycle, after reading the
\* tasks of the cycle.
C18_Witness ==
  /\ cycleCheck.called /\ cycleCheck.check.result = "false"
  /\ ~Acyclic(db)
  /\ \E t \in DOMAIN db :
        OnCycle(t, db) /\ \E k \in DOMAIN cycleCheck.expanded :
                              cycleCheck.expanded[k][2] = t

\* Scenario C: tasks 1 and 2 without dependencies, task 3 depending on both,
\* listed in the order 1, 2, 3.
ScenarioC ==
  << [id |-> 1, dueDate |-> NULL, dependencies |-> <<>>],
     [id |-> 2, dueDate |-> NULL, dependencies |-> <<>>],
     [id |-> 3, dueDate |-> NULL,
      dependencies |-> <<[id |-> 1, dueDate |-> NULL], [id |-> 2, dueDate |-> NULL]>>] >>

\* C21: the recorded predecessor of a task is, among its dependencies that
\* were dequeued and give it its final level, the one dequeued first: a later
\* dependency takes the link over only with a strictly greater level. For
\* Scenario C in the order 1, 2, 3: level[3] = 1, criticalPath = [1, 3],
\* pathLength = 2.
C21_FirstMaximalPredecessorKept ==
  rendered =>
     LET st == Leveling(todos)
         g == ListGraph(todos)
         pos(x) == CHOOSE k \in DOMAIN st.dequeued : st.dequeued[k] = x
     IN /\ \A t \in DOMAIN st.parent.val :
             st.parent.val[t] # NULL =>
                LET p == st.parent.val[t]
                    givers == {d \in g[t].dependencies \cap Range(st.dequeued) :
                                 st.levels.val[d] + 1 = st.levels.val[t]}
                IN p \in givers /\ \A d \in givers : pos(p) <= pos(d)
        /\ todos = ScenarioC =>
             /\ criticalPath.nodeLevels = [i \in 1..3 |-> IF i = 3 THEN 1 ELSE 0]
             /\ criticalPath.criticalPath = <<1, 3>>
             /\ criticalPath.pathLength = 2

\* Scenario C has been analysed.
C21_Witness == rendered /\ todos = ScenarioC

\* C22: when several tasks share the maximum level, the critical path ends
\* at the first of them in task-id order.
C22_EndTaskIsFirstOfMaxLevel ==
  LET g == ListGraph(todos)
      path == criticalPath.criticalPath
      nodeLevels == criticalPath.nodeLevels
      top == {t \in DOMAIN nodeLevels :
                \A u \in DOMAIN nodeLevels : nodeLevels[u] <= nodeLevels[t]}
  IN (rendered /\ Acyclic(g) /\ Closed(g) /\ Cardinality(top) >= 2) =>
        (path # <<>> /\ path[Len(path)] = Min(top))

\* The list in ascending id order, with every dependency array in ascending
\* id order.
Canonical(ts) ==
  LET ids == SetToSeq(ListedIds(ts))
      todo(id) == ts[CHOOSE k \in DOMAIN ts : ts[k].id = id]
      dep(t, id) == t.dependencies[CHOOSE j \in DOMAIN t.dependencies :
                                      t.dependencies[j].id = id]
      sorted(t) == LET ds == SetToSeq({t.dependencies[j].id : j \in DOMAIN t.dependencies})
                   IN [j \in DOMAIN ds |-> dep(t, ds[j])]
  IN [k \in DOMAIN ids |->
        [todo(ids[k]) EXCEPT !.dependencies = sorted(todo(ids[k]))]]

\* C28: for every acyclic list, nodeLevels and pathLength are those of the
\* same tasks listed in ascending id order with ascending dependency arrays:
\* no ordering of the list or of a dependency array changes them.
C28_LevelsIgnoreOrder ==
  (rendered /\ Acyclic(ListGraph(todos))) =>
     LET canon == calculateCriticalPath(Canonical(todos))
     IN /\ criticalPath.nodeLevels = canon.nodeLevels
        /\ criticalPath.pathLength = canon.pathLength

\* An acyclic list that is not in ascending order was analysed; a task of it
\* has a level above 0 and its critical path is not the one of the ascending
\* order.
C28_Witness ==
  /\ rendered /\ Acyclic(ListGraph(todos))
  /\ todos # Canonical(todos)
  /\ criticalPath.pathLength >= 2
  /\ criticalPath.criticalPath # calculateCriticalPath(Canonical(todos)).criticalPath

\* C29: for every list, cyclic or not, the i-th entry of criticalPath
\* (counted from 0) has level i in nodeLevels; so its entries are distinct
\* and no more than the tasks of the list.
C29_PathEntryHasItsIndexForLevel ==
  rendered =>
     LET path == criticalPath.criticalPath
     IN /\ \A i \in DOMAIN path :
             /\ path[i] \in DOMAIN criticalPath.nodeLevels
             /\ criticalPath.nodeLevels[path[i]] = i - 1
        /\ Distinct(path)
        /\ Len(path) <= Len(todos)

\* The analysed list holds a cycle and its critical path ends at a task of
\* that cycle.
C29_Witness ==
  /\ rendered
  /\ criticalPath.criticalPath # <<>>
  /\ OnCycle(criticalPath.criticalPath[Len(criticalPath.criticalPath)],
             ListGraph(todos))

\* The orderings of sequence s.
RECURSIVE Perms(_)
Perms(s) ==
  IF s = <<>> THEN {<<>>}
  ELSE UNION {{<<s[i]>> \o p :
                 p \in Perms(SubSeq(s, 1, i - 1) \o SubSeq(s, i + 1, Len(s)))} :
              i \in DOMAIN s}

\* C23: the earliest start of a task is the one the task gets in a list that
\* holds nothing but the task, with its direct dependencies in any order and
\* any due date of its own: two lists that agree on the task's direct
\* dependencies and their due dates give it the same earliest start,
\* whatever else they hold.
C23_StartDependsOnDirectOnly ==
  rendered =>
     \A k \in DOMAIN todos :
        \A due \in {NULL} \cup Days, ds \in Perms(todos[k].dependencies) :
           LET alone == <<[id |-> todos[k].id, dueDate |-> due, dependencies |-> ds]>>
           IN calculateEarliestStartDates(alone, zone)[todos[k].id]
                = earliestStartDates[todos[k].id]

\* The start dates were computed for a task whose prerequisite is listed and
\* has itself a dependency due later than the task's own dependency.
C23_Witness ==
  /\ rendered
  /\ \E k, m \in DOMAIN todos :
        /\ \E j \in DOMAIN todos[k].dependencies :
              todos[k].dependencies[j].id = todos[m].id
        /\ DependencyDays(todos[k]) # {} /\ DependencyDays(todos[m]) # {}
        /\ Max(DependencyDays(todos[m])) > Max(DependencyDays(todos[k]))

\* C26: after any sequence of create, replace-dependency-set and delete
\* requests, every stored edge task -> prerequisite between two tasks with
\* due dates has the prerequisite due no later than the task.
C26_StoredEdgesAreDueOrdered ==
  \A t \in DOMAIN db :
     \A d \in db[t].dependencies \cap DOMAIN db :
        (db[t].dueDate # NULL /\ db[d].dueDate # NULL) =>
           db[d].dueDate <= db[t].dueDate

\* A task with a due date depends on two stored tasks with due dates, one of
\* them due on the task's own day.
C26_Witness ==
  \E t \in DOMAIN db :
     /\ db[t].dueDate # NULL
     /\ Cardinality({d \in db[t].dependencies : db[d].dueDate # NULL}) = 2
     /\ \E d \in db[t].dependencies : db[d].dueDate = db[t].dueDate

\* C27: every create request answered with an error (400 or 500) leaves the
\* set of stored tasks as it was, also when its dependency list names an id
\* that is not in the store.
C27_FailedCreateLeavesNoTask ==
  [][(Answered("POST") /\ response'.status \in {400, 500})
     => DOMAIN db' = DOMAIN db]_vars

\* The place of task id in list ts.
PlaceIn(ts, id) == CHOOSE k \in DOMAIN ts : ts[k].id = id

\* C25: the displayed order holds the tasks of the list, and of any two
\* tasks the one displayed first has no earliest start or the earlier (or the
\* same) one; when they tie on the earliest start it has the earlier (or the
\* same) due date, or the other has none; when they tie on both it comes
\* first in the list.
C25_DisplayOrder ==
  rendered =>
     /\ Len(sortedTodos) = Len(todos)
     /\ Range(sortedTodos) = Range(todos)
     /\ \A i, j \in DOMAIN sortedTodos :
           i < j =>
              LET a == sortedTodos[i]
                  b == sortedTodos[j]
                  startA == earliestStartDates[a.id]
                  startB == earliestStartDates[b.id]
              IN /\ startB = NULL => startA = NULL
                 /\ (startA # NULL /\ startB # NULL) => startA <= startB
                 /\ startA = startB =>
                       /\ a.dueDate = NULL => b.dueDate = NULL
                       /\ (a.dueDate # NULL /\ b.dueDate # NULL) => a.dueDate <= b.dueDate
                       /\ a.dueDate = b.dueDate =>
                             PlaceIn(todos, a.id) < PlaceIn(todos, b.id)

\* The display moved a task with a due date in front of a task without one
\* that has the same earliest start and precedes it in the list.
C25_Witness ==
  /\ rendered /\ Len(todos) >= 2
  /\ todos[1].dueDate = NULL /\ todos[2].dueDate # NULL
  /\ earliestStartDates[todos[1].id] = earliestStartDates[todos[2].id]
  /\ sortedTodos[1] = todos[2]

\* C24: once a request of the page has been answered and its handler has
\* run, the page's todos are the store's contents as GET returns them.
C24_TodosMirrorStore == todos = GET(db)

\* C30: in every store reached through POST, PATCH and DELETE requests, as
\* GET returns it and in every time zone, a task with a due date and an
\* earliest start has its earliest start on a calendar day no later than the
\* day after its due date, and the page shows its 'after due date' warning
\* only when the latest due date among the task's dependencies is the task's
\* own.
C30_StartWithinADayOfDue ==
  \A tz \in Zones :
     LET fetched == GET(db)
         starts == calculateEarliestStartDates(fetched, tz)
     IN \A k \in DOMAIN fetched :
           LET todo == fetched[k]
               start == starts[todo.id]
           IN (todo.dueDate # NULL /\ start # NULL) =>
                 /\ UTCDay(start) <= todo.dueDate + 1
                 /\ AfterDueDate(todo, start) =>
                       Max(DependencyDays(todo)) = todo.dueDate

\* A request was answered 200 or 201 and left a task due on the day of its
\* latest dependency: its earliest start is the next day and the warning
\* shows.
C30_Witness ==
  /\ response.status \in {200, 201}
  /\ request.dependencyIds # <<>>
  /\ LET fetched == GET(db)
         starts == calculateEarliestStartDates(fetched, NoClockChange)
     IN \E k \in DOMAIN fetched :
           /\ fetched[k].id = request.id
           /\ fetched[k].dueDate # NULL
           /\ DependencyDays(fetched[k]) # {}
           /\ Max(DependencyDays(fetched[k])) = fetched[k].dueDate
           /\ UTCDay(starts[request.id]) = fetched[k].dueDate + 1
           /\ AfterDueDate(fetched[k], starts[request.id])

====
